---- MODULE Spec2Model ----
(***************************************************************************)
(* The Tuple value type of the ray tracer (src/src/tuple/mod.rs and        *)
(* src/src/tuple/ops.rs): a four-component homogeneous coordinate over     *)
(* f64, its constructors and predicates, the operators + - unary- * / and  *)
(* magnitude, normalize, dot_product and cross_product.                    *)
(*                                                                         *)
(* Every component is an f64.  An f64 is modelled bit-exactly as an IEEE   *)
(* 754 binary64 value under round-to-nearest-even, the arithmetic Rust     *)
(* compiles +, -, *, /, abs, sqrt and < on f64 to:                         *)
(*    [k |-> "nan"]                    any NaN (sign and payload are not   *)
(*                                     observable through Tuple's API)     *)
(*    [k |-> "inf", s |-> 0 or 1]      +infinity, -infinity                *)
(*    [k |-> "fin", s, e, m]           (-1)^s * m * 2^e                    *)
(* with m a natural number below 2^53 kept as a little-endian sequence of  *)
(* 15-bit limbs (TLC's integers are 32 bits wide), e in -1074..971, and    *)
(* the IEEE canonical form: m >= 2^52 for a normal number, e = -1074 for   *)
(* a subnormal number and for the zeros (m = << >>).                       *)
(***************************************************************************)
EXTENDS Integers, Sequences, FiniteSets, TLC

(***************************************************************************)
(* Natural numbers of any size: little-endian limbs, no high zero limb.    *)
(***************************************************************************)
LimbBits == 15
Base == 2^LimbBits

RECURSIVE BNorm(_)
BNorm(a) ==
  IF a = << >> THEN << >>
  ELSE IF a[Len(a)] = 0 THEN BNorm(SubSeq(a, 1, Len(a) - 1))
  ELSE a

RECURSIVE BFromInt(_)
BFromInt(n) == IF n = 0 THEN << >> ELSE <<n % Base>> \o BFromInt(n \div Base)

RECURSIVE BCmpFrom(_, _, _)
BCmpFrom(a, b, i) ==
  IF i = 0 THEN 0
  ELSE IF a[i] < b[i] THEN -1
  ELSE IF a[i] > b[i] THEN 1
  ELSE BCmpFrom(a, b, i - 1)

\* -1, 0 or 1 as a < b, a = b, a > b
BCmp(a, b) ==
  IF Len(a) < Len(b) THEN -1
  ELSE IF Len(a) > Len(b) THEN 1
  ELSE BCmpFrom(a, b, Len(a))

BHead(a) == IF a = << >> THEN 0 ELSE Head(a)
BTail(a) == IF a = << >> THEN << >> ELSE Tail(a)

RECURSIVE BAddC(_, _, _)
BAddC(a, b, c) ==
  IF a = << >> /\ b = << >> THEN (IF c = 0 THEN << >> ELSE <<c>>)
  ELSE LET x == BHead(a) + BHead(b) + c
       IN  <<x % Base>> \o BAddC(BTail(a), BTail(b), x \div Base)

BAdd(a, b) == BAddC(a, b, 0)

RECURSIVE BSubC(_, _, _)
BSubC(a, b, c) ==
  IF a = << >> THEN << >>
  ELSE LET x == Head(a) - BHead(b) - c
       IN  IF x < 0 THEN <<x + Base>> \o BSubC(Tail(a), BTail(b), 1)
           ELSE <<x>> \o BSubC(Tail(a), BTail(b), 0)

\* a - b, for a >= b
BSub(a, b) == BNorm(BSubC(a, b, 0))

RECURSIVE BMulSmallC(_, _, _)
BMulSmallC(a, k, c) ==
  IF a = << >> THEN (IF c = 0 THEN << >> ELSE <<c>>)
  ELSE LET x == Head(a) * k + c
       IN  <<x % Base>> \o BMulSmallC(Tail(a), k, x \div Base)

\* a * k, for 0 <= k < Base
BMulSmall(a, k) == IF k = 0 THEN << >> ELSE BMulSmallC(a, k, 0)

RECURSIVE BMul(_, _)
BMul(a, b) ==
  IF a = << >> \/ b = << >> THEN << >>
  ELSE BAdd(BMulSmall(a, Head(b)),
            LET r == BMul(a, Tail(b)) IN IF r = << >> THEN << >> ELSE <<0>> \o r)

RECURSIVE BZeros(_)
BZeros(n) == IF n = 0 THEN << >> ELSE <<0>> \o BZeros(n - 1)

\* a * 2^n
BShl(a, n) ==
  IF a = << >> THEN << >>
  ELSE BZeros(n \div LimbBits) \o BMulSmall(a, 2^(n % LimbBits))

RECURSIVE BDivSmallFrom(_, _, _, _)
BDivSmallFrom(a, k, i, r) ==
  IF i = 0 THEN << >>
  ELSE LET x == r * Base + a[i]
       IN  BDivSmallFrom(a, k, i - 1, x % k) \o <<x \div k>>

\* a \div k, for 0 < k <= Base
BDivSmall(a, k) == BNorm(BDivSmallFrom(a, k, Len(a), 0))

\* a \div 2^n
BShr(a, n) ==
  IF n \div LimbBits >= Len(a) THEN << >>
  ELSE BDivSmall(SubSeq(a, n \div LimbBits + 1, Len(a)), 2^(n % LimbBits))

RECURSIVE IntBitLen(_)
IntBitLen(n) == IF n = 0 THEN 0 ELSE 1 + IntBitLen(n \div 2)

\* the number of bits of a: 0 for 0, else floor(log2 a) + 1
BBitLen(a) ==
  IF a = << >> THEN 0 ELSE LimbBits * (Len(a) - 1) + IntBitLen(a[Len(a)])

\* bit i of a (bit 0 is the lowest)
BBit(a, i) ==
  IF i \div LimbBits >= Len(a) THEN 0
  ELSE (a[i \div LimbBits + 1] \div 2^(i % LimbBits)) % 2

RECURSIVE BLowZeroFrom(_, _)
BLowZeroFrom(a, i) ==
  IF i = 0 THEN TRUE ELSE a[i] = 0 /\ BLowZeroFrom(a, i - 1)

\* a % 2^n # 0
BLowBitsNonZero(a, n) ==
  IF n \div LimbBits >= Len(a) THEN a # << >>
  ELSE \/ ~BLowZeroFrom(a, n \div LimbBits)
       \/ a[n \div LimbBits + 1] % 2^(n % LimbBits) # 0

BIsOdd(a) == a # << >> /\ a[1] % 2 = 1

\* One step of long division by d: st = <<q, r>> with r2 = 2 * r
BDivBit(d, q, r2, ge) ==
  << BAdd(BAdd(q, q), IF ge THEN <<1>> ELSE << >>), IF ge THEN BSub(r2, d) ELSE r2 >>

BDivDouble(d, q, r2) == BDivBit(d, q, r2, BCmp(r2, d) >= 0)

BDivStep(d, st) == BDivDouble(d, st[1], BAdd(st[2], st[2]))

\* i steps of long division: st = <<q, r>> with r < d becomes
\* <<q * 2^i + (r * 2^i) \div d, (r * 2^i) % d>>.  The steps are split in two
\* halves, and the first half's remainder is checked (r < d holds after every
\* step) before the second half starts, which keeps the evaluation shallow.
RECURSIVE BDivLoop(_, _, _)
BDivLoop(d, i, st) ==
  IF i = 0 THEN st
  ELSE IF i = 1 THEN BDivStep(d, st)
  ELSE LET h == BDivLoop(d, i \div 2, st)
       IN  IF BCmp(h[2], d) < 0 THEN BDivLoop(d, i - i \div 2, h) ELSE h

\* <<(n * 2^k) \div d, (n * 2^k) % d>>, for n < 2 * d
BDivShifted(n, d, k) ==
  BDivLoop(d, k, IF BCmp(n, d) >= 0 THEN << <<1>>, BSub(n, d) >> ELSE << << >>, n >>)

\* One step of the digit-by-digit integer square root at the power of four
\* bit = 2^k: st = <<remainder, root so far>>, t = root so far + bit
BSqrtTry(rem, res, bit, t) ==
  IF BCmp(rem, t) >= 0
  THEN << BSub(rem, t), BAdd(BShr(res, 1), bit) >>
  ELSE << rem, BShr(res, 1) >>

BSqrtBit(rem, res, bit) == BSqrtTry(rem, res, bit, BAdd(res, bit))

BSqrtStep(st, k) == BSqrtBit(st[1], st[2], BShl(<<1>>, k))

\* c steps at the powers of four 2^k, 2^(k-2), ...; split in two halves like
\* BDivLoop (after the step at 2^j the root so far is a multiple of 2^j).
RECURSIVE BSqrtLoop(_, _, _)
BSqrtLoop(st, k, c) ==
  IF c = 0 THEN st
  ELSE IF c = 1 THEN BSqrtStep(st, k)
  ELSE LET h  == BSqrtLoop(st, k, c \div 2)
           k2 == k - 2 * (c \div 2)
       IN  IF ~BLowBitsNonZero(h[2], k2 + 2)
           THEN BSqrtLoop(h, k2, c - c \div 2)
           ELSE h

BSqrtFrom(n, top) == BSqrtLoop(<<n, << >> >>, 2 * top, top + 1)

\* <<n - floor(sqrt(n))^2, floor(sqrt(n))>>
BSqrtRem(n) ==
  IF n = << >> THEN << << >>, << >> >> ELSE BSqrtFrom(n, (BBitLen(n) - 1) \div 2)

(***************************************************************************)
(* f64: IEEE 754 binary64, round to nearest, ties to even.                 *)
(***************************************************************************)
MantBits == 53
EMin == -1074
EMax == 971

NaN == [k |-> "nan", s |-> 0, e |-> 0, m |-> << >>]
Inf(s) == [k |-> "inf", s |-> s, e |-> 0, m |-> << >>]
Zero(s) == [k |-> "fin", s |-> s, e |-> EMin, m |-> << >>]

IsNaN(x) == x.k = "nan"
IsInf(x) == x.k = "inf"
IsFin(x) == x.k = "fin"
IsZero(x) == x.k = "fin" /\ x.m = << >>
Xor(s, t) == IF s = t THEN 0 ELSE 1

IntMax(i, j) == IF i > j THEN i ELSE j

\* a * 2^(-sh), truncated
BShift(a, sh) == IF sh <= 0 THEN BShl(a, -sh) ELSE BShr(a, sh)

\* the finite f64 or infinity with sign s, exponent e and mantissa m < 2^54
\* (carry: m has MantBits + 1 bits, and is then even)
PackCarry(s, e, m, carry) ==
  IF e > EMax THEN Inf(s)
  ELSE [k |-> "fin", s |-> s, e |-> e, m |-> IF carry THEN BShr(m, 1) ELSE m]

PackExp(s, e, m, carry) == PackCarry(s, IF carry THEN e + 1 ELSE e, m, carry)

Pack(s, e, m) == PackExp(s, e, m, BBitLen(m) > MantBits)

\* q rounded to nearest, ties to even: rb is the first bit dropped, st whether
\* anything below it was nonzero
RoundInc(s, e, q, rb, st) ==
  Pack(s, e, IF rb /\ (st \/ BIsOdd(q)) THEN BAdd(q, <<1>>) ELSE q)

\* M * 2^E with its sh lowest bits rounded away
RoundShift(s, M, E, sticky, sh) ==
  RoundInc(s, E + sh, BShift(M, sh),
           sh > 0 /\ BBit(M, sh - 1) = 1,
           sticky \/ (sh > 1 /\ BLowBitsNonZero(M, sh - 1)))

\* The f64 nearest to (-1)^s * v * 2^E, where v = M when sticky is FALSE and
\* M < v < M + 1 when sticky is TRUE (then M has at least MantBits + 2 bits).
\* The result keeps MantBits bits of M, fewer below the smallest normal number.
RoundPack(s, M, E, sticky) ==
  IF M = << >> /\ ~sticky THEN Zero(s)
  ELSE RoundShift(s, M, E, sticky, IntMax(E + BBitLen(M) - MantBits, EMin) - E)

\* RoundPack of p = <<s, M, E, sticky>>
RoundParts(p) == RoundPack(p[1], p[2], p[3], p[4])

\* n * 2^e for a natural number n < 2^31 and an integer e, rounded to f64
F64(s, n, e) == RoundPack(s, BFromInt(n), e, FALSE)
FromInt(i) == IF i < 0 THEN F64(1, -i, 0) ELSE F64(0, i, 0)

\* unary minus on f64
F64Neg(x) == IF IsNaN(x) THEN NaN ELSE [x EXCEPT !.s = 1 - x.s]

\* f64::abs
F64Abs(x) == IF IsNaN(x) THEN NaN ELSE [x EXCEPT !.s = 0]

\* |x| < |y| for finite x, y
MagLess(x, y) == x.e < y.e \/ (x.e = y.e /\ BCmp(x.m, y.m) < 0)

\* hi - lo for opposite signs, mx = hi.m * 2^(hi.e - lo.e), c = BCmp(mx, lo.m)
AddDiff(hi, lo, mx, c) ==
  IF c = 0 THEN <<0, << >>, EMin, FALSE>>
  ELSE IF c > 0 THEN <<hi.s, BSub(mx, lo.m), lo.e, FALSE>>
  ELSE <<lo.s, BSub(lo.m, mx), lo.e, FALSE>>

AddNear(hi, lo, mx) ==
  IF hi.s = lo.s THEN <<hi.s, BAdd(mx, lo.m), lo.e, FALSE>>
  ELSE AddDiff(hi, lo, mx, BCmp(mx, lo.m))

\* lo is below one eighth of hi's last place: it only decides the rounding
AddFar(hi, lo, m8) ==
  IF hi.s = lo.s THEN <<hi.s, m8, hi.e - 3, TRUE>>
  ELSE <<hi.s, BSub(m8, <<1>>), hi.e - 3, TRUE>>

\* the exact sum of finite nonzero hi and lo with hi.e >= lo.e, as <<s, M, E, sticky>>
AddParts(hi, lo) ==
  IF hi.e - lo.e > MantBits + 7 THEN AddFar(hi, lo, BShl(hi.m, 3))
  ELSE AddNear(hi, lo, BShl(hi.m, hi.e - lo.e))

\* x + y on f64
F64Add(x, y) ==
  IF IsNaN(x) \/ IsNaN(y) THEN NaN
  ELSE IF IsInf(x) THEN (IF IsInf(y) /\ x.s # y.s THEN NaN ELSE x)
  ELSE IF IsInf(y) THEN y
  ELSE IF IsZero(x) /\ IsZero(y) THEN (IF x.s = y.s THEN x ELSE Zero(0))
  ELSE IF IsZero(x) THEN y
  ELSE IF IsZero(y) THEN x
  ELSE RoundParts(AddParts(IF x.e >= y.e THEN x ELSE y, IF x.e >= y.e THEN y ELSE x))

\* x - y on f64
F64Sub(x, y) == F64Add(x, F64Neg(y))

\* x * y on f64
F64Mul(x, y) ==
  IF IsNaN(x) \/ IsNaN(y) THEN NaN
  ELSE IF IsInf(x) \/ IsInf(y)
       THEN (IF IsZero(x) \/ IsZero(y) THEN NaN ELSE Inf(Xor(x.s, y.s)))
  ELSE RoundPack(Xor(x.s, y.s), BMul(x.m, y.m), x.e + y.e, FALSE)

\* the quotient of the mantissas, qr = <<quotient, remainder>>
DivRound(s, e, qr) == RoundPack(s, qr[1], e, qr[2] # << >>)

\* x.m and y.m shifted left by sx and sy to the same length, then divided to
\* MantBits + 3 quotient bits
DivShift(x, y, sx, sy) ==
  DivRound(Xor(x.s, y.s), x.e - sx - y.e + sy - (MantBits + 3),
           BDivShifted(BShl(x.m, sx), BShl(y.m, sy), MantBits + 3))

DivFinite(x, y, lx, ly) == DivShift(x, y, IntMax(ly - lx, 0), IntMax(lx - ly, 0))

\* x / y on f64
F64Div(x, y) ==
  IF IsNaN(x) \/ IsNaN(y) THEN NaN
  ELSE IF IsInf(x) THEN (IF IsInf(y) THEN NaN ELSE Inf(Xor(x.s, y.s)))
  ELSE IF IsInf(y) THEN Zero(Xor(x.s, y.s))
  ELSE IF IsZero(y) THEN (IF IsZero(x) THEN NaN ELSE Inf(Xor(x.s, y.s)))
  ELSE IF IsZero(x) THEN Zero(Xor(x.s, y.s))
  ELSE DivFinite(x, y, BBitLen(x.m), BBitLen(y.m))

\* rr = <<remainder, root>> of x.m * 2^sh
SqrtRound(e, rr) == RoundPack(0, rr[2], e, rr[1] # << >>)

SqrtShift(x, sh) == SqrtRound((x.e - sh) \div 2, BSqrtRem(BShl(x.m, sh)))

\* x.m is shifted left to at least 2 * MantBits + 6 bits, by a number of bits
\* that leaves an even exponent
SqrtFinite(x, k0) == SqrtShift(x, IF (x.e - k0) % 2 = 0 THEN k0 ELSE k0 + 1)

\* f64::sqrt
F64Sqrt(x) ==
  IF IsNaN(x) THEN NaN
  ELSE IF IsZero(x) THEN x
  ELSE IF x.s = 1 THEN NaN
  ELSE IF IsInf(x) THEN x
  ELSE SqrtFinite(x, 2 * MantBits + 6 - BBitLen(x.m))

\* x < y on f64
F64Lt(x, y) ==
  IF IsNaN(x) \/ IsNaN(y) THEN FALSE
  ELSE IF IsZero(x) /\ IsZero(y) THEN FALSE
  ELSE IF IsInf(x) THEN x.s = 1 /\ ~(IsInf(y) /\ y.s = 1)
  ELSE IF IsInf(y) THEN y.s = 0
  ELSE IF x.s # y.s THEN x.s = 1
  ELSE IF x.s = 0 THEN MagLess(x, y)
  ELSE MagLess(y, x)

(***************************************************************************)
(* Tuple (src/src/tuple/mod.rs) and its operators (src/src/tuple/ops.rs).  *)
(***************************************************************************)
\* the f64 literal 1.0
One == FromInt(1)

\* const EPSILON: f64 = 1e-6, the f64 nearest to 1/10^6
EPSILON == F64Div(FromInt(1), FromInt(1000000))

Tuple(x, y, z, w) == [x |-> x, y |-> y, z |-> z, w |-> w]

\* #[derive(Default)]: every component 0.0
TupleDefault == Tuple(Zero(0), Zero(0), Zero(0), Zero(0))

\* fault: a point constructed with w = 0.0
new_point_w0(x, y, z) == Tuple(x, y, z, Zero(0))

new_point(x, y, z) == Tuple(x, y, z, One)

new_vector(x, y, z) == Tuple(x, y, z, Zero(0))

is_point(self) == F64Lt(F64Abs(F64Sub(self.w, One)), EPSILON)

\* fault: a vector test pasted from is_point
is_vector_as_point(self) == F64Lt(F64Abs(F64Sub(self.w, One)), EPSILON)

is_vector(self) == F64Lt(F64Abs(self.w), EPSILON)

\* fault: an equality that also compares w
is_equal_to_w(self, other) ==
  /\ F64Lt(F64Abs(F64Sub(self.x, other.x)), EPSILON)
  /\ F64Lt(F64Abs(F64Sub(self.y, other.y)), EPSILON)
  /\ F64Lt(F64Abs(F64Sub(self.z, other.z)), EPSILON)
  /\ F64Lt(F64Abs(F64Sub(self.w, other.w)), EPSILON)

\* fault: an equality without tolerance
is_equal_to_exact(self, other) ==
  self.x = other.x /\ self.y = other.y /\ self.z = other.z

\* fault: an equality that compares the differences without .abs()
is_equal_to_no_abs(self, other) ==
  /\ F64Lt(F64Sub(self.x, other.x), EPSILON)
  /\ F64Lt(F64Sub(self.y, other.y), EPSILON)
  /\ F64Lt(F64Sub(self.z, other.z), EPSILON)

is_equal_to(self, other) ==
  /\ F64Lt(F64Abs(F64Sub(self.x, other.x)), EPSILON)
  /\ F64Lt(F64Abs(F64Sub(self.y, other.y)), EPSILON)
  /\ F64Lt(F64Abs(F64Sub(self.z, other.z)), EPSILON)

\* x*x + y*y + z*z + w*w, the sum taken left to right
SumOfSquares(self) ==
  F64Add(F64Add(F64Add(F64Mul(self.x, self.x), F64Mul(self.y, self.y)),
                F64Mul(self.z, self.z)),
         F64Mul(self.w, self.w))

\* fault: a sum that keeps the left operand's w
add_keep_w(self, rhs) ==
  Tuple(F64Add(self.x, rhs.x), F64Add(self.y, rhs.y), F64Add(self.z, rhs.z), self.w)

\* fault: a difference that keeps the left operand's w
sub_keep_w(self, rhs) ==
  Tuple(F64Sub(self.x, rhs.x), F64Sub(self.y, rhs.y), F64Sub(self.z, rhs.z), self.w)

\* fault: a negation that leaves w alone
neg_keep_w(self) == Tuple(F64Neg(self.x), F64Neg(self.y), F64Neg(self.z), self.w)

\* fault: a scaling that leaves w alone
mul_keep_w(self, rhs) ==
  Tuple(F64Mul(self.x, rhs), F64Mul(self.y, rhs), F64Mul(self.z, rhs), self.w)

\* fault: a division that leaves w alone
div_keep_w(self, rhs) ==
  Tuple(F64Div(self.x, rhs), F64Div(self.y, rhs), F64Div(self.z, rhs), self.w)

\* fault: a division that checks for a zero divisor and then returns self
div_checked(self, rhs) ==
  IF IsZero(rhs) THEN self
  ELSE Tuple(F64Div(self.x, rhs), F64Div(self.y, rhs),
             F64Div(self.z, rhs), F64Div(self.w, rhs))

\* fault: a magnitude that leaves w out of the norm
magnitude_xyz(self) ==
  F64Sqrt(F64Add(F64Add(F64Mul(self.x, self.x), F64Mul(self.y, self.y)),
                 F64Mul(self.z, self.z)))

\* fault: a normalize that divides by the squared magnitude
normalize_squared(self) ==
  Tuple(F64Div(self.x, SumOfSquares(self)), F64Div(self.y, SumOfSquares(self)),
        F64Div(self.z, SumOfSquares(self)), F64Div(self.w, SumOfSquares(self)))

\* fault: a sum that keeps w within 0.0 and 1.0, as the constructors do
add_clamp_w(self, rhs) ==
  Tuple(F64Add(self.x, rhs.x), F64Add(self.y, rhs.y), F64Add(self.z, rhs.z),
        IF F64Lt(One, F64Add(self.w, rhs.w)) THEN One ELSE F64Add(self.w, rhs.w))

\* fault: a difference with its operands swapped
sub_swapped(self, rhs) ==
  Tuple(F64Sub(rhs.x, self.x), F64Sub(rhs.y, self.y),
        F64Sub(rhs.z, self.z), F64Sub(rhs.w, self.w))

\* impl Add for Tuple: self + rhs, both taken by value
add_Tuple_Tuple(self, rhs) ==
  Tuple(F64Add(self.x, rhs.x), F64Add(self.y, rhs.y),
        F64Add(self.z, rhs.z), F64Add(self.w, rhs.w))

\* impl Add<&Tuple> for Tuple: self + &rhs
add_Tuple_Ref(self, rhs) ==
  Tuple(F64Add(self.x, rhs.x), F64Add(self.y, rhs.y),
        F64Add(self.z, rhs.z), F64Add(self.w, rhs.w))

\* impl Add<Tuple> for &Tuple: &self + rhs
add_Ref_Tuple(self, rhs) ==
  Tuple(F64Add(self.x, rhs.x), F64Add(self.y, rhs.y),
        F64Add(self.z, rhs.z), F64Add(self.w, rhs.w))

\* impl Add<&Tuple> for &Tuple: &self + &rhs
add_Ref_Ref(self, rhs) ==
  Tuple(F64Add(self.x, rhs.x), F64Add(self.y, rhs.y),
        F64Add(self.z, rhs.z), F64Add(self.w, rhs.w))

\* impl Sub for Tuple: self - rhs, both taken by value
sub_Tuple_Tuple(self, rhs) ==
  Tuple(F64Sub(self.x, rhs.x), F64Sub(self.y, rhs.y),
        F64Sub(self.z, rhs.z), F64Sub(self.w, rhs.w))

\* impl Sub<&Tuple> for Tuple: self - &rhs
sub_Tuple_Ref(self, rhs) ==
  Tuple(F64Sub(self.x, rhs.x), F64Sub(self.y, rhs.y),
        F64Sub(self.z, rhs.z), F64Sub(self.w, rhs.w))

\* impl Sub<Tuple> for &Tuple: &self - rhs
sub_Ref_Tuple(self, rhs) ==
  Tuple(F64Sub(self.x, rhs.x), F64Sub(self.y, rhs.y),
        F64Sub(self.z, rhs.z), F64Sub(self.w, rhs.w))

\* impl Sub<&Tuple> for &Tuple: &self - &rhs
sub_Ref_Ref(self, rhs) ==
  Tuple(F64Sub(self.x, rhs.x), F64Sub(self.y, rhs.y),
        F64Sub(self.z, rhs.z), F64Sub(self.w, rhs.w))

\* impl Neg for Tuple: -self
neg_Tuple(self) ==
  Tuple(F64Neg(self.x), F64Neg(self.y), F64Neg(self.z), F64Neg(self.w))

\* impl Neg for &Tuple: -&self
neg_Ref(self) ==
  Tuple(F64Neg(self.x), F64Neg(self.y), F64Neg(self.z), F64Neg(self.w))

\* impl Mul<f64> for Tuple: self * rhs
mul_Tuple(self, rhs) ==
  Tuple(F64Mul(self.x, rhs), F64Mul(self.y, rhs),
        F64Mul(self.z, rhs), F64Mul(self.w, rhs))

\* impl Mul<f64> for &Tuple: &self * rhs
mul_Ref(self, rhs) ==
  Tuple(F64Mul(self.x, rhs), F64Mul(self.y, rhs),
        F64Mul(self.z, rhs), F64Mul(self.w, rhs))

\* impl Div<f64> for Tuple: self / rhs
div_Tuple(self, rhs) ==
  Tuple(F64Div(self.x, rhs), F64Div(self.y, rhs),
        F64Div(self.z, rhs), F64Div(self.w, rhs))

\* impl Div<f64> for &Tuple: &self / rhs
div_Ref(self, rhs) ==
  Tuple(F64Div(self.x, rhs), F64Div(self.y, rhs),
        F64Div(self.z, rhs), F64Div(self.w, rhs))

\* fault: a dot product that leaves w out
dot_xyz(self, other) ==
  F64Add(F64Add(F64Mul(self.x, other.x), F64Mul(self.y, other.y)),
         F64Mul(self.z, other.z))

\* (x*x + y*y + z*z + w*w).sqrt(), the sum taken left to right
magnitude(self) ==
  F64Sqrt(F64Add(F64Add(F64Add(F64Mul(self.x, self.x), F64Mul(self.y, self.y)),
                        F64Mul(self.z, self.z)),
                 F64Mul(self.w, self.w)))

\* self / self.magnitude(), with self a &Tuple
normalize(self) == div_Ref(self, magnitude(self))

dot_product(self, other) ==
  F64Add(F64Add(F64Add(F64Mul(self.x, other.x), F64Mul(self.y, other.y)),
                F64Mul(self.z, other.z)),
         F64Mul(self.w, other.w))

\* fault: a cross product built as a struct literal that copies self.w
cross_keep_w(self, other) ==
  Tuple(F64Sub(F64Mul(self.y, other.z), F64Mul(self.z, other.y)),
        F64Sub(F64Mul(self.z, other.x), F64Mul(self.x, other.z)),
        F64Sub(F64Mul(self.x, other.y), F64Mul(self.y, other.x)),
        self.w)

\* fault: a cross product whose z adds where it should subtract
cross_z_sum(self, other) ==
  new_vector(F64Sub(F64Mul(self.y, other.z), F64Mul(self.z, other.y)),
             F64Sub(F64Mul(self.z, other.x), F64Mul(self.x, other.z)),
             F64Add(F64Mul(self.x, other.y), F64Mul(self.y, other.x)))

cross_product(self, other) ==
  new_vector(F64Sub(F64Mul(self.y, other.z), F64Mul(self.z, other.y)),
             F64Sub(F64Mul(self.z, other.x), F64Mul(self.x, other.z)),
             F64Sub(F64Mul(self.x, other.y), F64Mul(self.y, other.x)))

\* main.rs: struct RayTracerTuple { x, y, z: f64, w: u8 }
rt_new_point(x, y, z) == [x |-> x, y |-> y, z |-> z, w |-> 1]

rt_new_vector(x, y, z) == [x |-> x, y |-> y, z |-> z, w |-> 0]

rt_is_point(t) == t.w = 1

rt_is_vector(t) == t.w = 0

(***************************************************************************)
(* The inputs: the f64 values and tuples the operations are applied to.    *)
(***************************************************************************)
MaxCoord == 1
MaxScalar == 2

Half == F64Div(FromInt(1), FromInt(2))
Ten == FromInt(10)
F4_3 == F64Div(FromInt(43), FromInt(10))
F4_2 == F64Div(FromInt(-42), FromInt(10))
F3_1 == F64Div(FromInt(31), FromInt(10))
F3_5 == F64Div(FromInt(35), FromInt(10))
E7 == F64Div(FromInt(1), FromInt(10000000))
\* 0.6e-6
E6_06 == F64Div(FromInt(6), FromInt(10000000))
\* 2^700: its square is above the largest f64
Huge == F64(0, 1, 700)
\* 2^-1074, the smallest positive f64: its square is below it
Tiny == F64(0, 1, EMin)
\* 3 * 2^-539: its square, 9 * 2^-1078, rounds to 2^-1074
SubMin == F64(0, 3, -539)
\* 2^-511: its square, 2^-1022, is the smallest normal f64
RootMinNormal == F64(0, 1, -511)

\* the <<x, y, z>> given to new_point and new_vector
Triples ==
  { <<F4_3, F4_2, F3_1>>,
    <<F64Add(F4_3, E7), F4_2, F3_1>>,
    <<F64Add(F4_3, EPSILON), F4_2, F3_1>>,
    <<F64Add(F4_3, E6_06), F4_2, F3_1>>,
    <<F64Add(F64Add(F4_3, E6_06), E6_06), F4_2, F3_1>>,
    <<Zero(0), Zero(0), Zero(0)>>,
    <<EPSILON, Zero(0), Zero(0)>>,
    <<FromInt(3), FromInt(-2), FromInt(5)>>,
    <<Huge, Zero(0), Zero(0)>>,
    <<Huge, Huge, Huge>>,
    <<Huge, F64Neg(Huge), Huge>>,
    <<Tiny, Zero(0), Zero(0)>>,
    <<SubMin, Zero(0), Zero(0)>>,
    <<Zero(0), RootMinNormal, Zero(0)>> }
  \cup { <<FromInt(i), FromInt(2), FromInt(3)>> : i \in -MaxCoord..MaxCoord }

\* the <<x, y, z, w>> of the struct literals Tuple { x, y, z, w }
Literals ==
  { <<FromInt(1), FromInt(-2), FromInt(3), FromInt(-4)>>,
    <<NaN, Zero(0), Zero(0), Zero(0)>>,
    <<Inf(0), Inf(1), Zero(1), Zero(0)>> }

\* the <<x, y, z>> of the operands that join a running sum
LeafTriples == { <<FromInt(3), FromInt(-2), FromInt(5)>> }

\* the most operands of one sum
MaxLeaves == 3

\* the f64 right-hand sides of * and /
Scalars ==
  { FromInt(i) : i \in -MaxScalar..MaxScalar }
  \cup { F3_5, Half, Ten, Zero(1), Tiny, Inf(0), NaN }

(***************************************************************************)
(* The state: a caller's two bindings and its last call.                   *)
(*   self, other  the two Tuple bindings                                   *)
(*   live         the bindings that hold a value the caller may use: a     *)
(*                binding is live once bound, until it is passed by value  *)
(*   made         how each binding was constructed                         *)
(*   pc           "start", "one" (self bound), "two" (both bound), "done"  *)
(*                (a call was made), "done2" (a second call was made on    *)
(*                what the first returned), "sum" (self has been added to  *)
(*                or subtracted from freshly constructed tuples), "main"   *)
(*                (self is bound to a RayTracerTuple of main.rs)           *)
(*   fn, args     the last call and the arguments it was given             *)
(*   ret          the value it returned                                    *)
(*   leaves       when ret is the value of an expression a + b - c ...     *)
(*                over constructed tuples ("sum"): the <<sign, constructor *)
(*                >> of each of its operands, in the order written         *)
(***************************************************************************)
VARIABLES self, other, live, made, pc, fn, args, ret, leaves

vars == <<self, other, live, made, pc, fn, args, ret, leaves>>

Init ==
  /\ self = TupleDefault
  /\ other = TupleDefault
  /\ live = {}
  /\ made = [b \in {"self", "other"} |-> "none"]
  /\ pc = "start"
  /\ fn = "none"
  /\ args = << >>
  /\ ret = "none"
  /\ leaves = << >>

\* let self = t; or, once self is bound, let other = t;
Bind(ctor, a, t) ==
  /\ pc \in {"start", "one"}
  /\ fn' = ctor
  /\ args' = a
  /\ ret' = t
  /\ IF pc = "start"
     THEN /\ self' = t
          /\ live' = {"self"}
          /\ made' = [made EXCEPT !["self"] = ctor]
          /\ pc' = "one"
          /\ UNCHANGED other
     ELSE /\ other' = t
          /\ live' = {"self", "other"}
          /\ made' = [made EXCEPT !["other"] = ctor]
          /\ pc' = "two"
          /\ UNCHANGED self
  /\ UNCHANGED leaves

NewPoint == \E c \in Triples : Bind("new_point", c, new_point(c[1], c[2], c[3]))

NewVector == \E c \in Triples : Bind("new_vector", c, new_vector(c[1], c[2], c[3]))

StructLiteral == \E c \in Literals : Bind("literal", c, Tuple(c[1], c[2], c[3], c[4]))

\* a call on self alone; gone are the bindings it takes by value
Call1(name, a, r, gone) ==
  /\ pc = "one"
  /\ fn' = name
  /\ args' = a
  /\ ret' = r
  /\ live' = live \ gone
  /\ pc' = "done"
  /\ UNCHANGED <<self, other, made, leaves>>

\* a call on self and other
Call2(name, r, gone) ==
  /\ pc = "two"
  /\ fn' = name
  /\ args' = <<self, other>>
  /\ ret' = r
  /\ live' = live \ gone
  /\ pc' = "done"
  /\ UNCHANGED <<self, other, made, leaves>>

IsPoint == Call1("is_point", <<self>>, is_point(self), {})
IsVector == Call1("is_vector", <<self>>, is_vector(self), {})
IsEqualTo == Call2("is_equal_to", is_equal_to(self, other), {})
\* self.is_equal_to(&self)
IsEqualToSelf == Call1("is_equal_to", <<self, self>>, is_equal_to(self, self), {})

\* self + other, &self + other, self + &other, &self + &other
AddTT == Call2("add_TT", add_Tuple_Tuple(self, other), {"self", "other"})
AddTR == Call2("add_TR", add_Tuple_Ref(self, other), {"self"})
AddRT == Call2("add_RT", add_Ref_Tuple(self, other), {"other"})
AddRR == Call2("add_RR", add_Ref_Ref(self, other), {})

SubTT == Call2("sub_TT", sub_Tuple_Tuple(self, other), {"self", "other"})
SubTR == Call2("sub_TR", sub_Tuple_Ref(self, other), {"self"})
SubRT == Call2("sub_RT", sub_Ref_Tuple(self, other), {"other"})
SubRR == Call2("sub_RR", sub_Ref_Ref(self, other), {})

\* -self, -&self
NegT == Call1("neg_T", <<self>>, neg_Tuple(self), {"self"})
NegR == Call1("neg_R", <<self>>, neg_Ref(self), {})

\* self * s, &self * s
MulT == \E s \in Scalars : Call1("mul_T", <<self, s>>, mul_Tuple(self, s), {"self"})
MulR == \E s \in Scalars : Call1("mul_R", <<self, s>>, mul_Ref(self, s), {})

\* self / s, &self / s
DivT == \E s \in Scalars : Call1("div_T", <<self, s>>, div_Tuple(self, s), {"self"})
DivR == \E s \in Scalars : Call1("div_R", <<self, s>>, div_Ref(self, s), {})

Magnitude == Call1("magnitude", <<self>>, magnitude(self), {})
Normalize == Call1("normalize", <<self>>, normalize(self), {})
DotProduct == Call2("dot_product", dot_product(self, other), {})
CrossProduct == Call2("cross_product", cross_product(self, other), {})

\* tuple.normalize().magnitude() and (-&tuple).magnitude(): magnitude of the
\* tuple the last call returned
ThenMagnitude ==
  /\ pc = "done"
  /\ fn \in {"normalize", "neg_R"}
  /\ fn' = IF fn = "normalize" THEN "normalize.magnitude" ELSE "neg_R.magnitude"
  /\ args' = <<ret>>
  /\ ret' = magnitude(ret)
  /\ pc' = "done2"
  /\ UNCHANGED <<self, other, live, made, leaves>>

\* -&-&tuple: the negation of the tuple -&tuple returned
ThenNeg ==
  /\ pc = "done"
  /\ fn = "neg_R"
  /\ fn' = "neg_R.neg_R"
  /\ args' = <<ret>>
  /\ ret' = neg_Ref(ret)
  /\ pc' = "done2"
  /\ UNCHANGED <<self, other, live, made, leaves>>

\* the calls that return a Tuple
TupleCalls ==
  {"add_TT", "add_TR", "add_RT", "add_RR", "sub_TT", "sub_TR", "sub_RT", "sub_RR",
   "neg_T", "neg_R", "mul_T", "mul_R", "div_T", "div_R", "normalize", "cross_product"}

\* (a + b).is_point() and the like: a predicate called on the tuple the last
\* call returned
ThenPredicate(name, r) ==
  /\ pc \in {"done", "sum"}
  /\ fn \in TupleCalls
  /\ fn' = name
  /\ args' = <<ret>>
  /\ ret' = r
  /\ pc' = "done2"
  /\ UNCHANGED <<self, other, live, made, leaves>>

ThenIsPoint == ThenPredicate("ret.is_point", is_point(ret))
ThenIsVector == ThenPredicate("ret.is_vector", is_vector(ret))

\* The running value of an expression self + a - b ...: self before the first
\* operation, what the last one returned after it; and its operands so far.
Acc == IF pc = "one" THEN self ELSE ret
AccLeaves == IF pc = "one" THEN << <<1, made["self"]>> >> ELSE leaves

\* the operands of -(e), given those of e
Flip(ls) == [i \in DOMAIN ls |-> <<-ls[i][1], ls[i][2]>>]

NewLeaf(ctor, c) ==
  IF ctor = "new_point" THEN new_point(c[1], c[2], c[3]) ELSE new_vector(c[1], c[2], c[3])

\* one more + or - in the expression, both operands passed by value
SumStep(name, a, r, ls) ==
  /\ pc \in {"one", "sum"}
  /\ Len(AccLeaves) < MaxLeaves
  /\ fn' = name
  /\ args' = a
  /\ ret' = r
  /\ leaves' = ls
  /\ live' = {}
  /\ pc' = "sum"
  /\ UNCHANGED <<self, other, made>>

\* e + leaf, e - leaf, leaf + e, leaf - e
SumPlusLeaf ==
  \E ctor \in {"new_point", "new_vector"}, c \in LeafTriples :
    SumStep("add_TT", <<Acc, NewLeaf(ctor, c)>>, add_Tuple_Tuple(Acc, NewLeaf(ctor, c)),
            Append(AccLeaves, <<1, ctor>>))
SumMinusLeaf ==
  \E ctor \in {"new_point", "new_vector"}, c \in LeafTriples :
    SumStep("sub_TT", <<Acc, NewLeaf(ctor, c)>>, sub_Tuple_Tuple(Acc, NewLeaf(ctor, c)),
            Append(AccLeaves, <<-1, ctor>>))
LeafPlusSum ==
  \E ctor \in {"new_point", "new_vector"}, c \in LeafTriples :
    SumStep("add_TT", <<NewLeaf(ctor, c), Acc>>, add_Tuple_Tuple(NewLeaf(ctor, c), Acc),
            << <<1, ctor>> >> \o AccLeaves)
LeafMinusSum ==
  \E ctor \in {"new_point", "new_vector"}, c \in LeafTriples :
    SumStep("sub_TT", <<NewLeaf(ctor, c), Acc>>, sub_Tuple_Tuple(NewLeaf(ctor, c), Acc),
            << <<1, ctor>> >> \o Flip(AccLeaves))

\* main.rs: RayTracerTuple::new_point and new_vector bind self to a tuple whose
\* w is a u8
MainBind(ctor, c, t) ==
  /\ pc = "start"
  /\ fn' = ctor
  /\ args' = c
  /\ ret' = t
  /\ self' = t
  /\ live' = {"self"}
  /\ made' = [made EXCEPT !["self"] = ctor]
  /\ pc' = "main"
  /\ UNCHANGED <<other, leaves>>

MainNewPoint ==
  \E c \in Triples : MainBind("main.new_point", c, rt_new_point(c[1], c[2], c[3]))

MainNewVector ==
  \E c \in Triples : MainBind("main.new_vector", c, rt_new_vector(c[1], c[2], c[3]))

MainCall(name, r) ==
  /\ pc = "main"
  /\ fn' = name
  /\ args' = <<self>>
  /\ ret' = r
  /\ pc' = "done"
  /\ UNCHANGED <<self, other, live, made, leaves>>

MainIsPoint == MainCall("main.is_point", rt_is_point(self))
MainIsVector == MainCall("main.is_vector", rt_is_vector(self))

Next ==
  \/ NewPoint \/ NewVector \/ StructLiteral
  \/ MainNewPoint \/ MainNewVector \/ MainIsPoint \/ MainIsVector
  \/ ThenMagnitude \/ ThenNeg \/ ThenIsPoint \/ ThenIsVector
  \/ SumPlusLeaf \/ SumMinusLeaf \/ LeafPlusSum \/ LeafMinusSum
  \/ IsPoint \/ IsVector \/ IsEqualTo \/ IsEqualToSelf
  \/ AddTT \/ AddTR \/ AddRT \/ AddRR
  \/ SubTT \/ SubTR \/ SubRT \/ SubRR
  \/ NegT \/ NegR
  \/ MulT \/ MulR \/ DivT \/ DivR
  \/ Magnitude \/ Normalize \/ DotProduct \/ CrossProduct

Spec == Init /\ [][Next]_vars

(***************************************************************************)
(* The properties.  Each reads the last call (fn, args, ret) and, where it *)
(* matters, how the bindings were made.                                    *)
(***************************************************************************)
AddCalls == {"add_TT", "add_TR", "add_RT", "add_RR"}
SubCalls == {"sub_TT", "sub_TR", "sub_RT", "sub_RR"}
NegCalls == {"neg_T", "neg_R"}
MulCalls == {"mul_T", "mul_R"}
DivCalls == {"div_T", "div_R"}

\* |a - b| < EPSILON, in f64
Within(a, b) == F64Lt(F64Abs(F64Sub(a, b)), EPSILON)

\* t with its w replaced
WithW(t, w) == [t EXCEPT !.w = w]

\* a well-formed f64: NaN, an infinity, or a finite value in canonical form
IsF64(v) ==
  /\ DOMAIN v = {"k", "s", "e", "m"}
  /\ v.k \in {"nan", "inf", "fin"}
  /\ v.s \in {0, 1}
  /\ v.k = "fin" =>
       /\ v.e \in EMin..EMax
       /\ BBitLen(v.m) <= MantBits
       /\ (BBitLen(v.m) < MantBits => v.e = EMin)
       /\ BNorm(v.m) = v.m

IsTuple(t) ==
  /\ DOMAIN t = {"x", "y", "z", "w"}
  /\ IsF64(t.x) /\ IsF64(t.y) /\ IsF64(t.z) /\ IsF64(t.w)

\* a finite f64 with a full mantissa: neither zero nor subnormal
IsNormal(v) == IsFin(v) /\ BBitLen(v.m) = MantBits

\* +-2^k with 2^-k an f64 as well, so that 1.0 / v is exact
IsPowerOfTwo(v) ==
  /\ IsFin(v) /\ ~IsZero(v)
  /\ ~BLowBitsNonZero(v.m, BBitLen(v.m) - 1)
  /\ v.e + BBitLen(v.m) - 1 >= -(EMax + MantBits - 1)

\* the values of w that C1 puts in place of the operands' own
WValues == {Zero(0), One, FromInt(2), FromInt(-1), NaN}

\* C1: a.is_equal_to(b) is TRUE exactly when |a.x - b.x|, |a.y - b.y| and
\* |a.z - b.z|, each computed in f64, are all strictly below EPSILON = 1e-6: a
\* difference of exactly EPSILON on an axis gives FALSE.  The w of a and of b
\* never changes the result, so a point and a vector with the same x, y, z
\* compare equal.
C1_IsEqualTo ==
  fn = "is_equal_to" =>
    /\ ret = (/\ Within(args[1].x, args[2].x)
              /\ Within(args[1].y, args[2].y)
              /\ Within(args[1].z, args[2].z))
    /\ ( \/ F64Abs(F64Sub(args[1].x, args[2].x)) = EPSILON
         \/ F64Abs(F64Sub(args[1].y, args[2].y)) = EPSILON
         \/ F64Abs(F64Sub(args[1].z, args[2].z)) = EPSILON ) => ret = FALSE
    /\ \A w1, w2 \in WValues :
         is_equal_to(WithW(args[1], w1), WithW(args[2], w2)) = ret

\* a point and a vector whose x differ by less than EPSILON compared equal
C1_Witness ==
  /\ fn = "is_equal_to"
  /\ made["self"] = "new_point" /\ made["other"] = "new_vector"
  /\ args[1].x = F64Add(F4_3, E7) /\ args[2].x = F4_3
  /\ args[1].y = args[2].y /\ args[1].z = args[2].z
  /\ ret = TRUE

\* C2: new_point(x, y, z) returns (x, y, z, w = 1), which is_point() accepts and
\* is_vector() rejects; new_vector(x, y, z) returns (x, y, z, w = 0), which
\* is_vector() accepts and is_point() rejects.  The same holds of main.rs's
\* RayTracerTuple, whose w is the integer 1 or 0.
C2_Constructors ==
  /\ fn = "new_point" =>
       /\ ret = [x |-> args[1], y |-> args[2], z |-> args[3], w |-> One]
       /\ is_point(ret) /\ ~is_vector(ret)
  /\ fn = "new_vector" =>
       /\ ret = [x |-> args[1], y |-> args[2], z |-> args[3], w |-> Zero(0)]
       /\ is_vector(ret) /\ ~is_point(ret)
  /\ fn = "is_point" /\ made["self"] \in {"new_point", "new_vector"} =>
       ret = (made["self"] = "new_point")
  /\ fn = "is_vector" /\ made["self"] \in {"new_point", "new_vector"} =>
       ret = (made["self"] = "new_vector")
  /\ fn = "main.new_point" =>
       /\ ret = [x |-> args[1], y |-> args[2], z |-> args[3], w |-> 1]
       /\ rt_is_point(ret) /\ ~rt_is_vector(ret)
  /\ fn = "main.new_vector" =>
       /\ ret = [x |-> args[1], y |-> args[2], z |-> args[3], w |-> 0]
       /\ rt_is_vector(ret) /\ ~rt_is_point(ret)
  /\ fn = "main.is_point" => ret = (made["self"] = "main.new_point")
  /\ fn = "main.is_vector" => ret = (made["self"] = "main.new_vector")

\* is_vector() was called on a tuple that new_point made, and returned false
C2_Witness ==
  /\ fn = "is_vector"
  /\ made["self"] = "new_point"
  /\ args[1].w = One
  /\ ret = FALSE

\* C3: a + b is the sum of all four components, w included: point + vector
\* and vector + point are points (w = 1), vector + vector is a vector (w = 0),
\* and point + point is returned with w = 2, which neither is_point() nor
\* is_vector() accepts.
C3_Add ==
  fn \in AddCalls =>
    /\ ret = [x |-> F64Add(args[1].x, args[2].x), y |-> F64Add(args[1].y, args[2].y),
              z |-> F64Add(args[1].z, args[2].z), w |-> F64Add(args[1].w, args[2].w)]
    /\ made["self"] = "new_point" /\ made["other"] = "new_vector" =>
         ret.w = One /\ is_point(ret)
    /\ made["self"] = "new_vector" /\ made["other"] = "new_point" =>
         ret.w = One /\ is_point(ret)
    /\ made["self"] = "new_vector" /\ made["other"] = "new_vector" =>
         ret.w = Zero(0) /\ is_vector(ret)
    /\ made["self"] = "new_point" /\ made["other"] = "new_point" =>
         ret.w = FromInt(2) /\ ~is_point(ret) /\ ~is_vector(ret)

\* two points were added and the sum came back with w = 2
C3_Witness ==
  /\ fn \in AddCalls
  /\ made["self"] = "new_point" /\ made["other"] = "new_point"
  /\ ret.w = FromInt(2)
  /\ ret.x = F64Add(self.x, other.x)

\* C4: a - b is the difference of all four components, w included: point -
\* point is a vector (w = 0), point - vector is a point (w = 1), vector -
\* vector is a vector (w = 0), and vector - point is returned with w = -1.
C4_Sub ==
  fn \in SubCalls =>
    /\ ret = [x |-> F64Sub(args[1].x, args[2].x), y |-> F64Sub(args[1].y, args[2].y),
              z |-> F64Sub(args[1].z, args[2].z), w |-> F64Sub(args[1].w, args[2].w)]
    /\ made["self"] = "new_point" /\ made["other"] = "new_point" =>
         ret.w = Zero(0) /\ is_vector(ret)
    /\ made["self"] = "new_point" /\ made["other"] = "new_vector" =>
         ret.w = One /\ is_point(ret)
    /\ made["self"] = "new_vector" /\ made["other"] = "new_vector" =>
         ret.w = Zero(0) /\ is_vector(ret)
    /\ made["self"] = "new_vector" /\ made["other"] = "new_point" =>
         ret.w = FromInt(-1)

\* a point was subtracted from a vector and the difference came back with w = -1
C4_Witness ==
  /\ fn \in SubCalls
  /\ made["self"] = "new_vector" /\ made["other"] = "new_point"
  /\ ret.w = FromInt(-1)
  /\ ret.x = F64Sub(self.x, other.x)

\* a / m, component by component
DivideAll(a, m) ==
  [x |-> F64Div(a.x, m), y |-> F64Div(a.y, m), z |-> F64Div(a.z, m), w |-> F64Div(a.w, m)]

\* C5, as stated: a.normalize() is a divided by a.magnitude() in all four
\* components, and for every vector a (w = 0) the magnitude of a.normalize() is
\* within EPSILON of 1.0.
C5_Original ==
  /\ fn = "normalize" => ret = DivideAll(args[1], magnitude(args[1]))
  /\ fn = "normalize.magnitude" /\ IsZero(self.w) => Within(ret, One)

\* C5, amended: a.normalize() is a divided by a.magnitude() in all four
\* components, and the magnitude of a.normalize() is within EPSILON of 1.0 for
\* every vector a (w = 0) whose sum of squares x*x + y*y + z*z + w*w, computed
\* in f64, is a normal number: not NaN, not infinite, not zero, not subnormal.
C5_Normalize ==
  /\ fn = "normalize" => ret = DivideAll(args[1], magnitude(args[1]))
  /\ fn = "normalize.magnitude" /\ IsZero(self.w) /\ IsNormal(SumOfSquares(self)) =>
       Within(ret, One)

\* a vector with a normal sum of squares was normalized, to a tuple other than
\* itself, and the magnitude of the result was within EPSILON of 1.0
C5_Witness ==
  /\ fn = "normalize.magnitude"
  /\ made["self"] = "new_vector"
  /\ IsNormal(SumOfSquares(self))
  /\ args[1] = DivideAll(self, magnitude(self))
  /\ args[1] # self
  /\ Within(ret, One)

\* the value a call returns is one of its return type
Returned ==
  CASE fn \in {"is_point", "is_vector", "is_equal_to", "main.is_point", "main.is_vector",
              "ret.is_point", "ret.is_vector"} ->
         ret \in BOOLEAN
    [] fn \in {"magnitude", "dot_product", "normalize.magnitude", "neg_R.magnitude"} ->
         IsF64(ret)
    [] fn \in {"main.new_point", "main.new_vector"} ->
         IsF64(ret.x) /\ IsF64(ret.y) /\ IsF64(ret.z) /\ ret.w \in {0, 1}
    [] fn = "none" -> ret = "none"
    [] OTHER -> IsTuple(ret)

\* x / 0.0 or x / -0.0 in f64: NaN when x is zero or NaN, an infinity otherwise
IsByZero(q, x) == IF IsZero(x) \/ IsNaN(x) THEN IsNaN(q) ELSE IsInf(q)

\* C6: no operation has an error outcome.  Whatever the input, every
\* constructor, predicate, operator and geometric function returns a value of
\* its return type; a / s with s = 0 is not rejected: each component of the
\* result is the f64 quotient, an infinity or NaN, and so is each component of
\* a.normalize() when a.magnitude() is 0.
C6_NoError ==
  /\ Returned
  /\ fn \in DivCalls /\ IsZero(args[2]) =>
       /\ IsByZero(ret.x, args[1].x) /\ IsByZero(ret.y, args[1].y)
       /\ IsByZero(ret.z, args[1].z) /\ IsByZero(ret.w, args[1].w)
  /\ fn = "normalize" /\ IsZero(magnitude(args[1])) =>
       /\ IsByZero(ret.x, args[1].x) /\ IsByZero(ret.y, args[1].y)
       /\ IsByZero(ret.z, args[1].z) /\ IsByZero(ret.w, args[1].w)

\* a vector was divided by zero: x came back infinite and w came back NaN
C6_Witness ==
  /\ fn \in DivCalls
  /\ IsZero(args[2])
  /\ made["self"] = "new_vector"
  /\ IsInf(ret.x) /\ IsNaN(ret.w)

\* C7: -t is (-x, -y, -z, -w), so the negation of a point has w = -1, and
\* -(-t) has exactly the x, y, z and w of t.
C7_Neg ==
  /\ fn \in NegCalls =>
       /\ ret = [x |-> F64Neg(args[1].x), y |-> F64Neg(args[1].y),
                 z |-> F64Neg(args[1].z), w |-> F64Neg(args[1].w)]
       /\ made["self"] = "new_point" => ret.w = FromInt(-1)
  /\ fn = "neg_R.neg_R" => ret = self

\* a point was negated twice: the first negation had w = -1 and the second
\* gave the point back
C7_Witness ==
  /\ fn = "neg_R.neg_R"
  /\ made["self"] = "new_point"
  /\ args[1].w = FromInt(-1)
  /\ args[1] # self
  /\ ret = self

\* C8: a * s is (a.x * s, a.y * s, a.z * s, a.w * s): all four components are
\* scaled, w included, whatever a and s are.
C8_Mul ==
  fn \in MulCalls =>
    ret = [x |-> F64Mul(args[1].x, args[2]), y |-> F64Mul(args[1].y, args[2]),
           z |-> F64Mul(args[1].z, args[2]), w |-> F64Mul(args[1].w, args[2])]

\* a point was scaled by 3.5 and its w came back 3.5
C8_Witness ==
  /\ fn \in MulCalls
  /\ made["self"] = "new_point"
  /\ args[2] = F3_5
  /\ ret.w = F3_5
  /\ ret.x = F64Mul(self.x, F3_5)

\* a * (1.0 / s)
TimesReciprocal(a, s) ==
  [x |-> F64Mul(a.x, F64Div(One, s)), y |-> F64Mul(a.y, F64Div(One, s)),
   z |-> F64Mul(a.z, F64Div(One, s)), w |-> F64Mul(a.w, F64Div(One, s))]

\* C9, as stated: for every non-zero s, a / s equals a * (1 / s) in all four
\* components.
C9_Original ==
  fn \in DivCalls /\ ~IsZero(args[2]) => ret = TimesReciprocal(args[1], args[2])

\* C9, amended: a / s is (a.x / s, a.y / s, a.z / s, a.w / s), each the f64
\* quotient, w included; it equals a * (1 / s) in all four components when s is
\* a power of two whose reciprocal is an f64, so that 1 / s is exact.
C9_Div ==
  fn \in DivCalls =>
    /\ ret = DivideAll(args[1], args[2])
    /\ IsPowerOfTwo(args[2]) => ret = TimesReciprocal(args[1], args[2])

\* a point was divided by 2.0 and its w came back 0.5
C9_Witness ==
  /\ fn \in DivCalls
  /\ made["self"] = "new_point"
  /\ args[2] = FromInt(2)
  /\ IsPowerOfTwo(args[2])
  /\ ret.w = Half
  /\ ret = TimesReciprocal(self, args[2])

\* C10: a.magnitude() is sqrt(x*x + y*y + z*z + w*w) in f64, w included: a
\* point at the origin has magnitude 1, a vector's magnitude is the square root
\* of x*x + y*y + z*z, and -a has the magnitude of a.
C10_Magnitude ==
  /\ fn = "magnitude" =>
       /\ ret = F64Sqrt(SumOfSquares(args[1]))
       /\ args[1] = new_point(Zero(0), Zero(0), Zero(0)) => ret = One
       /\ IsZero(args[1].w) =>
            ret = F64Sqrt(F64Add(F64Add(F64Mul(args[1].x, args[1].x),
                                        F64Mul(args[1].y, args[1].y)),
                                 F64Mul(args[1].z, args[1].z)))
  /\ fn = "neg_R.magnitude" => args[1] # self /\ ret = magnitude(self)

\* the magnitude of the point at the origin was taken, and was 1
C10_Witness ==
  /\ fn = "magnitude"
  /\ made["self"] = "new_point"
  /\ IsZero(args[1].x) /\ IsZero(args[1].y) /\ IsZero(args[1].z)
  /\ ret = One

\* x == y on f64: NaN equals nothing, itself included, and +0.0 equals -0.0
F64Eq(x, y) == ~IsNaN(x) /\ ~IsNaN(y) /\ (x = y \/ (IsZero(x) /\ IsZero(y)))

\* ((a.x*b.x + a.y*b.y) + a.z*b.z) + a.w*b.w
DotSum(a, b) ==
  F64Add(F64Add(F64Add(F64Mul(a.x, b.x), F64Mul(a.y, b.y)), F64Mul(a.z, b.z)),
         F64Mul(a.w, b.w))

\* C11, as stated: a.dot_product(b) is a.x*b.x + a.y*b.y + a.z*b.z + a.w*b.w,
\* w included, and a.dot_product(b) == b.dot_product(a) for all a and b.
C11_Original ==
  fn = "dot_product" =>
    /\ ret = DotSum(args[1], args[2])
    /\ F64Eq(ret, dot_product(args[2], args[1]))

\* C11, amended: a.dot_product(b) is a.x*b.x + a.y*b.y + a.z*b.z + a.w*b.w in
\* f64, w included, the sum taken left to right; b.dot_product(a) returns the
\* same f64, so the two compare == unless that f64 is NaN.
C11_DotProduct ==
  fn = "dot_product" =>
    /\ ret = DotSum(args[1], args[2])
    /\ ret = dot_product(args[2], args[1])
    /\ ~IsNaN(ret) => F64Eq(ret, dot_product(args[2], args[1]))

\* the dot product of the points (1, 2, 3) and (3, -2, 5) was taken and was
\* 3 - 4 + 15 + 1 = 15 in either order
C11_Witness ==
  /\ fn = "dot_product"
  /\ made["self"] = "new_point" /\ made["other"] = "new_point"
  /\ args[1].x = FromInt(1) /\ args[2].x = FromInt(3)
  /\ ret = FromInt(15)
  /\ F64Eq(ret, dot_product(args[2], args[1]))

\* (a.y*b.z - a.z*b.y, a.z*b.x - a.x*b.z, a.x*b.y - a.y*b.x, 0.0)
CrossOf(a, b) ==
  [x |-> F64Sub(F64Mul(a.y, b.z), F64Mul(a.z, b.y)),
   y |-> F64Sub(F64Mul(a.z, b.x), F64Mul(a.x, b.z)),
   z |-> F64Sub(F64Mul(a.x, b.y), F64Mul(a.y, b.x)),
   w |-> Zero(0)]

\* C12: for all tuples a and b, whatever their w, a.cross_product(b) is
\* (a.y*b.z - a.z*b.y, a.z*b.x - a.x*b.z, a.x*b.y - a.y*b.x) with w = 0: it is
\* a vector under is_vector(), and it is the same whatever w the operands have.
C12_CrossProduct ==
  fn = "cross_product" =>
    /\ ret = CrossOf(args[1], args[2])
    /\ is_vector(ret) /\ ~is_point(ret)
    /\ \A w1, w2 \in WValues :
         cross_product(WithW(args[1], w1), WithW(args[2], w2)) = ret

\* the cross product of the points (1, 2, 3) and (3, -2, 5), both with w = 1,
\* was taken and was (16, 4, -8) with w = 0
C12_Witness ==
  /\ fn = "cross_product"
  /\ made["self"] = "new_point" /\ made["other"] = "new_point"
  /\ args[1].x = FromInt(1) /\ args[2].x = FromInt(3)
  /\ args[1].w = One /\ args[2].w = One
  /\ ret = [x |-> FromInt(16), y |-> FromInt(4), z |-> FromInt(-8), w |-> Zero(0)]

\* -(b.cross_product(a))
NegCrossOf(b, a) == neg_Tuple(cross_product(b, a))

\* C13, as stated: for all a and b, a.cross_product(b) == -(b.cross_product(a))
\* on x, y and z, and both sides are vectors under is_vector().
C13_Original ==
  fn = "cross_product" =>
    /\ F64Eq(ret.x, NegCrossOf(args[2], args[1]).x)
    /\ F64Eq(ret.y, NegCrossOf(args[2], args[1]).y)
    /\ F64Eq(ret.z, NegCrossOf(args[2], args[1]).z)
    /\ is_vector(ret) /\ is_vector(NegCrossOf(args[2], args[1]))

\* x == y, or both are NaN
EqOrBothNaN(x, y) == F64Eq(x, y) \/ (IsNaN(x) /\ IsNaN(y))

\* C13, amended: for all a and b, each of x, y and z of a.cross_product(b) and
\* of -(b.cross_product(a)) are == (a zero on one side may be -0.0 on the
\* other), or are both NaN; both sides are vectors under is_vector().
C13_AntiCommutative ==
  fn = "cross_product" =>
    /\ EqOrBothNaN(ret.x, NegCrossOf(args[2], args[1]).x)
    /\ EqOrBothNaN(ret.y, NegCrossOf(args[2], args[1]).y)
    /\ EqOrBothNaN(ret.z, NegCrossOf(args[2], args[1]).z)
    /\ is_vector(ret) /\ is_vector(NegCrossOf(args[2], args[1]))

\* the cross product of the vectors (1, 2, 3) and (3, -2, 5) was taken: it has
\* a non-zero z, and -(b x a) has the same x, y and z
C13_Witness ==
  /\ fn = "cross_product"
  /\ made["self"] = "new_vector" /\ made["other"] = "new_vector"
  /\ args[1].x = FromInt(1) /\ args[2].x = FromInt(3)
  /\ ret.z = FromInt(-8)
  /\ cross_product(args[2], args[1]).z = FromInt(8)
  /\ F64Eq(ret.x, NegCrossOf(args[2], args[1]).x)
  /\ F64Eq(ret.y, NegCrossOf(args[2], args[1]).y)
  /\ F64Eq(ret.z, NegCrossOf(args[2], args[1]).z)

\* C14, as stated: a.is_equal_to(a) is true for every tuple a, and
\* a.is_equal_to(b) is b.is_equal_to(a) for all tuples a and b.
C14_Original ==
  fn = "is_equal_to" =>
    /\ args[1] = args[2] => ret = TRUE
    /\ ret = is_equal_to(args[2], args[1])

\* C14, amended: a.is_equal_to(a) is true for every tuple a whose x, y and z
\* are finite, and false when one of them is NaN or infinite;
\* a.is_equal_to(b) is b.is_equal_to(a) for all tuples a and b.
C14_ReflexiveSymmetric ==
  fn = "is_equal_to" =>
    /\ args[1] = args[2] =>
         ret = (IsFin(args[1].x) /\ IsFin(args[1].y) /\ IsFin(args[1].z))
    /\ ret = is_equal_to(args[2], args[1])

\* a.is_equal_to(&a) was called on a point with finite components, before any
\* other tuple was bound, and returned true
C14_Witness ==
  /\ fn = "is_equal_to"
  /\ pc = "done"
  /\ made["self"] = "new_point" /\ made["other"] = "none"
  /\ args[1] = self /\ args[2] = self
  /\ IsFin(self.x) /\ ~IsZero(self.x)
  /\ ret = TRUE

\* C15: on the same operand values every owned/borrowed variant of an
\* operator returns the same tuple (four of +, four of -, two of unary -, two
\* of * and two of / by a scalar), and an operand passed by reference is still
\* usable after the call with the x, y, z, w it had before.
C15_Variants ==
  /\ fn \in AddCalls =>
       /\ ret = add_Tuple_Tuple(args[1], args[2])
       /\ ret = add_Tuple_Ref(args[1], args[2])
       /\ ret = add_Ref_Tuple(args[1], args[2])
       /\ ret = add_Ref_Ref(args[1], args[2])
  /\ fn \in SubCalls =>
       /\ ret = sub_Tuple_Tuple(args[1], args[2])
       /\ ret = sub_Tuple_Ref(args[1], args[2])
       /\ ret = sub_Ref_Tuple(args[1], args[2])
       /\ ret = sub_Ref_Ref(args[1], args[2])
  /\ fn \in NegCalls => ret = neg_Tuple(args[1]) /\ ret = neg_Ref(args[1])
  /\ fn \in MulCalls =>
       ret = mul_Tuple(args[1], args[2]) /\ ret = mul_Ref(args[1], args[2])
  /\ fn \in DivCalls =>
       ret = div_Tuple(args[1], args[2]) /\ ret = div_Ref(args[1], args[2])
  /\ fn \in {"add_RT", "add_RR", "sub_RT", "sub_RR", "neg_R", "mul_R", "div_R"} =>
       "self" \in live /\ self = args[1]
  /\ fn \in {"add_TR", "add_RR", "sub_TR", "sub_RR"} =>
       "other" \in live /\ other = args[2]
  /\ fn \in {"add_TT", "add_TR", "sub_TT", "sub_TR", "neg_T", "mul_T", "div_T"} =>
       "self" \notin live
  /\ fn \in {"add_TT", "add_RT", "sub_TT", "sub_RT"} => "other" \notin live

\* &self - other was called on two different tuples: self is still usable and
\* unchanged, other was moved, and the result is what self - other gives
C15_Witness ==
  /\ fn = "sub_RT"
  /\ live = {"self"}
  /\ self = args[1]
  /\ ret = sub_Tuple_Tuple(self, other)
  /\ ret # sub_Tuple_Tuple(other, self)

\* the operands of a sum were all made by new_point or new_vector
Constructed(ls) == \A i \in DOMAIN ls : ls[i][2] \in {"new_point", "new_vector"}

\* the points that enter with a plus sign, less those that enter with a minus sign
RECURSIVE NetPoints(_)
NetPoints(ls) ==
  IF ls = << >> THEN 0
  ELSE (IF Head(ls)[2] = "new_point" THEN Head(ls)[1] ELSE 0) + NetPoints(Tail(ls))

\* C16: when tuples made by new_point and new_vector are combined by any
\* sequence of + and -, the w of the result is the number of points that enter
\* with a plus sign less the number that enter with a minus sign; is_point()
\* holds of the result exactly when that number is 1, is_vector() exactly when
\* it is 0, and neither holds otherwise.
C16_NetPoints ==
  /\ pc = "sum" /\ Constructed(leaves) =>
       /\ ret.w = FromInt(NetPoints(leaves))
       /\ is_point(ret) = (NetPoints(leaves) = 1)
       /\ is_vector(ret) = (NetPoints(leaves) = 0)
  /\ pc = "done2" /\ leaves # << >> /\ Constructed(leaves) =>
       /\ fn = "ret.is_point" => ret = (NetPoints(leaves) = 1)
       /\ fn = "ret.is_vector" => ret = (NetPoints(leaves) = 0)

\* three points were combined as p - q - r, or as p - (q + r): w came back
\* 1 - 1 - 1 = -1, which neither predicate accepts
C16_Witness ==
  /\ pc = "sum"
  /\ leaves = << <<1, "new_point">>, <<-1, "new_point">>, <<-1, "new_point">> >>
  /\ ret.w = FromInt(-1)
  /\ ~is_point(ret) /\ ~is_vector(ret)

\* values of w at and around the two tolerances
WEdges ==
  { Zero(0), Zero(1), E7, F64Neg(E7), EPSILON, F64Neg(EPSILON), Half, One,
    F64Sub(One, E7), F64Add(One, E7), F64Sub(One, EPSILON), F64Add(One, EPSILON),
    FromInt(2), FromInt(-1), Inf(0), NaN }

\* C17: is_point() and is_vector() never both hold of a tuple, whatever its w,
\* a w that arithmetic produced included; and they are not exhaustive: neither
\* holds when w is 2 or -1.
C17_Exclusive ==
  /\ fn \in {"is_point", "ret.is_point"} =>
       /\ ret = is_point(args[1])
       /\ ~(ret /\ is_vector(args[1]))
       /\ args[1].w \in {FromInt(2), FromInt(-1)} => ~ret
  /\ fn \in {"is_vector", "ret.is_vector"} =>
       /\ ret = is_vector(args[1])
       /\ ~(ret /\ is_point(args[1]))
       /\ args[1].w \in {FromInt(2), FromInt(-1)} => ~ret
  /\ fn \in {"is_point", "ret.is_point", "is_vector", "ret.is_vector"} =>
       \A w \in WEdges : ~(is_point(WithW(args[1], w)) /\ is_vector(WithW(args[1], w)))

\* is_point() was called on a sum with w = 2 and returned false, and is_vector()
\* is false of that sum as well
C17_Witness ==
  /\ fn = "ret.is_point"
  /\ args[1].w = FromInt(2)
  /\ ret = FALSE
  /\ ~is_vector(args[1])

\* the tuples new_point makes from the triples
MadePoints == { new_point(c[1], c[2], c[3]) : c \in Triples }

\* a and c are 4.3 and 4.3 + 0.6e-6 + 0.6e-6, or 4.3 and 4.3 + EPSILON, on x and
\* agree on y and z
TwoSteps(a, c) ==
  /\ a.x = F4_3
  /\ c.x \in {F64Add(F64Add(F4_3, E6_06), E6_06), F64Add(F4_3, EPSILON)}
  /\ a.y = c.y /\ a.z = c.z

\* C18: is_equal_to is not transitive.  With a.x = 4.3 and c two offsets of
\* 0.6e-6 further on x (or EPSILON further), a.is_equal_to(c) is false although
\* some tuple b has a.is_equal_to(b) and b.is_equal_to(c) true.
C18_NotTransitive ==
  fn = "is_equal_to" /\ TwoSteps(args[1], args[2]) =>
    /\ ret = FALSE
    /\ \E b \in MadePoints : is_equal_to(args[1], b) /\ is_equal_to(b, args[2])

\* a = (4.3, -4.2, 3.1) and c = (4.3 + 0.6e-6 + 0.6e-6, -4.2, 3.1) compared
\* unequal, while b = (4.3 + 0.6e-6, -4.2, 3.1) is equal to both
C18_Witness ==
  /\ fn = "is_equal_to"
  /\ args[1] = new_point(F4_3, F4_2, F3_1)
  /\ args[2] = new_point(F64Add(F64Add(F4_3, E6_06), E6_06), F4_2, F3_1)
  /\ ret = FALSE
  /\ is_equal_to(args[1], new_point(F64Add(F4_3, E6_06), F4_2, F3_1))
  /\ is_equal_to(new_point(F64Add(F4_3, E6_06), F4_2, F3_1), args[2])

====
